---------------------------- MODULE Spec2Model ----------------------------
(***************************************************************************)
(* Model of the Cosmetic Interpreter (src/app.py): the tokenizer, the      *)
(* parser, the executor with its session (theme, inventory, palette) and   *)
(* the Streamlit handlers that drive them, the login of the sidebar and    *)
(* the inventory kept per user in the Firebase database.                   *)
(*                                                                         *)
(* A Python str is a sequence of one-character strings, so that lower(),   *)
(* strip(), startswith() and the quote scanner are computed character by   *)
(* character.  An Optional value is a sequence of length at most one:      *)
(* None is <<>> and a value x is <<x>>.  A message is modelled by its kind *)
(* and the number it carries; the argument it quotes is in the command.    *)
(***************************************************************************)
EXTENDS Naturals, Sequences, FiniteSets, TLC

VARIABLES theme,      \* executor.theme : Optional[str]
          inventory,  \* executor.inventory : Set[str]
          palette,    \* executor.palette : List[str]
          outfits,    \* executor.outfits : the catalog, fixed at construction
          firebase_enabled,  \* the checkbox, with a manager that initialised
          uid,        \* st.session_state uid : Optional[str]
          did_sync,   \* st.session_state did_sync
          store,      \* users/<uid>/inventory of the database : List[str]
          res,        \* what the handler that ran last did and displayed
          invBefore,  \* history: executor.inventory when that handler started
          own         \* history: per user, the items stored at the start and
                      \* the items of the add commands run while logged in

vars == <<theme, inventory, palette, outfits, firebase_enabled, uid, did_sync,
          store, res, invBefore, own>>

None == <<>>
Some(x) == <<x>>

-----------------------------------------------------------------------------
(* Python strings *)

UpperCase == <<"A","B","C","D","E","F","G","H","I","J","K","L","M",
               "N","O","P","Q","R","S","T","U","V","W","X","Y","Z">>
LowerCase == <<"a","b","c","d","e","f","g","h","i","j","k","l","m",
               "n","o","p","q","r","s","t","u","v","w","x","y","z">>

Whitespace == {" ", "\t"}
Quote == "\""


\* the characters the inputs are written in
Alphabet ==
  {UpperCase[i] : i \in DOMAIN UpperCase} \cup {LowerCase[i] : i \in DOMAIN LowerCase}
  \cup Whitespace \cup {Quote, ","}

\* what str.lower() makes of each character: only A-Z change
LowerChar ==
  [c \in Alphabet |->
     IF \E i \in DOMAIN UpperCase : UpperCase[i] = c
     THEN LowerCase[CHOOSE i \in DOMAIN UpperCase : UpperCase[i] = c]
     ELSE c]

\* str.lower()
Lower(s) == [i \in 1..Len(s) |-> LowerChar[s[i]]]

\* str.strip()
Strip(s) ==
  LET keep == {i \in 1..Len(s) : s[i] \notin Whitespace}
  IN  IF keep = {} THEN <<>>
      ELSE LET lo == CHOOSE i \in keep : \A j \in 1..(i - 1) : j \notin keep
               hi == CHOOSE i \in keep : \A j \in (i + 1)..Len(s) : j \notin keep
           IN  SubSeq(s, lo, hi)

\* str.startswith(prefix)
StartsWith(s, prefix) ==
  /\ Len(prefix) <= Len(s)
  /\ SubSeq(s, 1, Len(prefix)) = prefix

\* s[from:] with a 0-based index, as Python slices
From(s, from) == SubSeq(s, from + 1, Len(s))

\* the 0-based index of the first c in s at or after the 0-based index from;
\* Len(s) when there is none (where the scanning loops stop)
Find(s, c, from) ==
  LET hits == {i \in from..(Len(s) - 1) : s[i + 1] = c}
  IN  IF hits = {} THEN Len(s)
      ELSE CHOOSE i \in hits : \A j \in hits : i <= j

\* the characters in the order of their code points, which is the order
\* that str comparison and sorted() go by
CodePoints == <<"\t", " ", Quote, ",">> \o UpperCase \o LowerCase

Ord(c) == CHOOSE i \in DOMAIN CodePoints : CodePoints[i] = c

\* a < b, of two str
RECURSIVE StrLess(_, _)
StrLess(a, b) ==
  IF b = <<>> THEN FALSE
  ELSE IF a = <<>> THEN TRUE
  ELSE IF Head(a) # Head(b) THEN Ord(Head(a)) < Ord(Head(b))
  ELSE StrLess(Tail(a), Tail(b))

\* sorted(list(xs)), of a set of str
RECURSIVE SortedList(_)
SortedList(xs) ==
  IF xs = {} THEN <<>>
  ELSE LET least == CHOOSE x \in xs : \A y \in xs \ {x} : StrLess(x, y)
       IN  <<least>> \o SortedList(xs \ {least})

-----------------------------------------------------------------------------
(* Tokenizer *)

COMMAND == "COMMAND"
STRING_LITERAL == "STRING_LITERAL"
EOF == "EOF"

Token(type, value, position) ==
  [type |-> type, value |-> value, position |-> position]

ApplyTheme == <<"a","p","p","l","y"," ","t","h","e","m","e">>
AddItem == <<"a","d","d"," ","i","t","e","m">>
RemoveItem == <<"r","e","m","o","v","e"," ","i","t","e","m">>
ClearInventory == <<"c","l","e","a","r"," ","i","n","v","e","n","t","o","r","y">>
AddItemList == <<"a","d","d"," ","i","t","e","m"," ","l","i","s","t">>
ColorPalette == <<"c","o","l","o","r"," ","p","a","l","e","t","t","e">>
AssembleCosmetic ==
  <<"a","s","s","e","m","b","l","e"," ","c","o","s","m","e","t","i","c">>
Register == <<"r","e","g","i","s","t","e","r">>
Login == <<"l","o","g","i","n">>
Logout == <<"l","o","g","o","u","t">>
Exit == <<"e","x","i","t">>

\* CosmeticsTokenizer.COMMANDS, its keys in the order of the dict
COMMANDS ==
  <<ApplyTheme, AddItem, RemoveItem, ClearInventory, AddItemList,
    ColorPalette, AssembleCosmetic, Register, Login, Logout, Exit>>

\* sorted(keys, key=len, reverse=True): a stable sort, so that keys of one
\* length keep the order of the dict
RECURSIVE InsertByLen(_, _)
InsertByLen(sorted, k) ==
  IF sorted = <<>> THEN <<k>>
  ELSE IF Len(Head(sorted)) >= Len(k)
       THEN <<Head(sorted)>> \o InsertByLen(Tail(sorted), k)
       ELSE <<k>> \o sorted

RECURSIVE SortedByLen(_)
SortedByLen(keys) ==
  IF keys = <<>> THEN <<>>
  ELSE InsertByLen(SortedByLen(SubSeq(keys, 1, Len(keys) - 1)),
                   keys[Len(keys)])

\* the loop of _match_command trying the keys in the order they come
MatchCommandUnsorted(input) ==
  LET text == Lower(input)
      hits == {i \in DOMAIN COMMANDS : StartsWith(text, COMMANDS[i])}
  IN  IF hits = {} THEN None
      ELSE Some(COMMANDS[CHOOSE i \in hits : \A j \in hits : i <= j])

\* _match_command: the first key, longest first, that the lower-cased input
\* starts with; self.position becomes its length
MatchCommand(input) ==
  LET text == Lower(input)
      order == SortedByLen(COMMANDS)
      hits == {i \in DOMAIN order : StartsWith(text, order[i])}
  IN  IF hits = {} THEN None
      ELSE Some(order[CHOOSE i \in hits : \A j \in hits : i <= j])

\* the 0-based indices of the quotes of text, in increasing order
QuotesOf(text) ==
  SelectSeq([i \in 1..Len(text) |-> i - 1], LAMBDA i : text[i + 1] = Quote)

\* a scanner that takes the text after a last quote that nothing closes as
\* one more literal
LiteralsToTheEnd(text, position) ==
  LET q == QuotesOf(text)
      closed == [n \in 1..(Len(q) \div 2) |->
                   Token(STRING_LITERAL, SubSeq(text, q[2 * n - 1] + 2, q[2 * n]),
                         position + q[2 * n - 1])]
  IN  IF Len(q) % 2 = 0 THEN closed
      ELSE Append(closed, Token(STRING_LITERAL,
                                SubSeq(text, q[Len(q)] + 2, Len(text)),
                                position + q[Len(q)]))

\* the while loops of _extract_string_literals: the outer loop skips to the
\* next quote (index i), the inner one runs to the quote after it (index j);
\* so the quotes pair up in order, (1st, 2nd), (3rd, 4th), ..., each pair
\* gives the token of text[i+1:j] at self.position + i, and a last quote
\* that nothing closes breaks the loop
Literals(text, position) ==
  LET q == QuotesOf(text)
  IN  [n \in 1..(Len(q) \div 2) |->
         Token(STRING_LITERAL, SubSeq(text, q[2 * n - 1] + 2, q[2 * n]),
               position + q[2 * n - 1])]

\* _extract_string_literals
ExtractStringLiterals(input, position) ==
  Literals(Strip(From(input, position)), position)

\* a tokenize that extracts the literals whether a command matched or not
TokenizeAlwaysExtracts(input_text) ==
  LET input == Strip(input_text)
      cmd == MatchCommand(input)
      position == IF cmd = None THEN 0 ELSE Len(cmd[1])
  IN  (IF cmd = None THEN <<>> ELSE <<Token(COMMAND, cmd[1], 0)>>)
      \o ExtractStringLiterals(input, position)
      \o <<Token(EOF, <<>>, position)>>

\* tokenize, of CosmeticsTokenizer(input_text)
Tokenize(input_text) ==
  LET input == Strip(input_text)
      cmd == MatchCommand(input)
      position == IF cmd = None THEN 0 ELSE Len(cmd[1])
  IN  (IF cmd = None THEN <<>>
       ELSE <<Token(COMMAND, cmd[1], 0)>>
            \o ExtractStringLiterals(input, position))
      \o <<Token(EOF, <<>>, position)>>

-----------------------------------------------------------------------------
(* Parser *)

\* the upper bound of the two list commands in COMMAND_RULES
MaxListArgs == 99

\* CosmeticsParser.COMMAND_RULES: (min, max) per command
COMMAND_RULES(cmd) ==
  CASE cmd = ApplyTheme -> <<1, 1>>
    [] cmd = AddItem -> <<1, 1>>
    [] cmd = RemoveItem -> <<1, 1>>
    [] cmd = ClearInventory -> <<0, 0>>
    [] cmd = AddItemList -> <<1, MaxListArgs>>
    [] cmd = ColorPalette -> <<1, MaxListArgs>>
    [] cmd = AssembleCosmetic -> <<0, 0>>
    [] cmd = Register -> <<2, 2>>
    [] cmd = Login -> <<1, 1>>
    [] cmd = Logout -> <<0, 0>>
    [] cmd = Exit -> <<0, 0>>

\* cmd in self.COMMAND_RULES: the table has the keys of COMMANDS
InRules(cmd) == \E i \in DOMAIN COMMANDS : COMMANDS[i] = cmd

NoError == "none"
ParseError == "ParseError"
ExecutionError == "ExecutionError"

ASTNode(command, arguments) == [command |-> command, arguments |-> arguments]

\* the while loop of parse: the values of the STRING_LITERAL tokens that
\* follow the command without a break
ParseArgs(tokens) ==
  LET stop == {i \in 2..Len(tokens) : tokens[i].type # STRING_LITERAL}
      end == IF stop = {} THEN Len(tokens) + 1
             ELSE CHOOSE i \in stop : \A j \in stop : i <= j
  IN  [i \in 1..(end - 2) |-> tokens[i + 1].value]

\* an arity test that forgets the upper bound
ArityOkNoMax(min_a, n, max_a) == min_a <= n

\* the arity test of parse: min_a <= len(args) <= max_a
ArityOk(min_a, n, max_a) == min_a <= n /\ n <= max_a

\* parse: the ASTNode, or the ParseError it raises
Parse(tokens) ==
  IF tokens = <<>> \/ tokens[1].type # COMMAND
  THEN [error |-> ParseError, why |-> "ExpectedCommand"]
  ELSE LET cmd == tokens[1].value
           args == ParseArgs(tokens)
       IN  IF ~InRules(cmd)
           THEN [error |-> ParseError, why |-> "UnknownCommand"]
           ELSE IF ~ArityOk(COMMAND_RULES(cmd)[1], Len(args),
                            COMMAND_RULES(cmd)[2])
                THEN [error |-> ParseError, why |-> "Arity"]
                ELSE [error |-> NoError, ast |-> ASTNode(cmd, args)]

-----------------------------------------------------------------------------
(* Domain model *)

Field(d, f) == IF f \in DOMAIN d THEN d[f] ELSE <<>>

\* CosmeticOutfit.from_dict: a missing field is "" or []
FromDict(d) ==
  [name |-> Field(d, "name"), theme |-> Field(d, "theme"),
   items |-> Field(d, "items"), colors |-> Field(d, "colors"),
   image |-> Field(d, "image"), steps |-> Field(d, "steps")]

OutfitMatch(outfit, missing_items, missing_colors) ==
  [outfit |-> outfit, missing_items |-> missing_items,
   missing_colors |-> missing_colors]

\* set(x.lower() for x in xs)
LowerSet(xs) == {Lower(xs[i]) : i \in DOMAIN xs}

-----------------------------------------------------------------------------
(* Executor: each handler maps the session to the session it leaves and   *)
(* the message it returns                                                 *)

Session(t, inv, pal) == [theme |-> t, inventory |-> inv, palette |-> pal]

Msg(kind, n) == [kind |-> kind, n |-> n]

Outcome(s, kind, n) == [session |-> s, error |-> NoError, msg |-> Msg(kind, n)]

\* a raise that comes after the inventory was dropped
RaiseAfterClear(s, error) ==
  [session |-> [s EXCEPT !.inventory = {}], error |-> error,
   msg |-> Msg(error, 0)]

\* raise ExecutionError: the session is as it was
Raise(s, error) == [session |-> s, error |-> error, msg |-> Msg(error, 0)]

\* _apply_theme
DoApplyTheme(s, t) ==
  Outcome([s EXCEPT !.theme = Some(Lower(t))], "ThemeApplied", 0)

\* an item looked up and stored as it was typed
ItemKeyAsTyped(item) == item

\* item_l: the item as _add_item and _remove_item look it up and store it
ItemKey(item) == Lower(item)

\* _add_item
DoAddItem(s, item) ==
  LET item_l == ItemKey(item)
  IN  IF item_l \in s.inventory
      THEN Outcome(s, "AlreadyInInventory", 0)
      ELSE Outcome([s EXCEPT !.inventory = @ \cup {item_l}], "Added", 0)

\* a _remove_item that looks the item up as it was typed
DoRemoveItemAsTyped(s, item) ==
  IF item \notin s.inventory
  THEN Outcome(s, "NotInInventory", 0)
  ELSE Outcome([s EXCEPT !.inventory = @ \ {item}], "Removed", 0)

\* _remove_item
DoRemoveItem(s, item) ==
  LET item_l == ItemKey(item)
  IN  IF item_l \notin s.inventory
      THEN Outcome(s, "NotInInventory", 0)
      ELSE Outcome([s EXCEPT !.inventory = @ \ {item_l}], "Removed", 0)

\* _clear_inventory
DoClearInventory(s) == Outcome([s EXCEPT !.inventory = {}], "Cleared", 0)

\* a loop that counts every item it is given
RECURSIVE AddLoopCountsAll(_, _, _)
AddLoopCountsAll(inv, added, items) ==
  IF items = <<>> THEN [inventory |-> inv, added |-> added]
  ELSE AddLoopCountsAll(inv \cup {Lower(Head(items))}, added + 1, Tail(items))

\* the loop of _add_item_list: the inventory and the count after the items
RECURSIVE AddLoop(_, _, _)
AddLoop(inv, added, items) ==
  IF items = <<>> THEN [inventory |-> inv, added |-> added]
  ELSE IF Lower(Head(items)) \notin inv
       THEN AddLoop(inv \cup {Lower(Head(items))}, added + 1, Tail(items))
       ELSE AddLoop(inv, added, Tail(items))

\* _add_item_list
DoAddItemList(s, items) ==
  LET r == AddLoop(s.inventory, 0, items)
  IN  Outcome([s EXCEPT !.inventory = r.inventory], "AddedN", r.added)

\* a _set_color_palette that stores the colours as they were typed
DoSetColorPaletteAsTyped(s, colors) ==
  Outcome([s EXCEPT !.palette = colors], "PaletteSet", 0)

\* a _set_color_palette that adds the colours to the palette it finds
DoSetColorPaletteExtends(s, colors) ==
  Outcome([s EXCEPT !.palette = @ \o [i \in DOMAIN colors |-> Lower(colors[i])]],
          "PaletteSet", 0)

\* _set_color_palette
DoSetColorPalette(s, colors) ==
  Outcome([s EXCEPT !.palette = [i \in DOMAIN colors |-> Lower(colors[i])]],
          "PaletteSet", 0)

\* "not self.theme": None and the empty string are both falsy
NoTheme(t) == t = None \/ t[1] = <<>>

\* [o for o in self.outfits if o.theme.lower() == self.theme]
ThemeOutfits(cat, t) ==
  IF t = None THEN <<>>
  ELSE SelectSeq(cat, LAMBDA o : Lower(o.theme) = t[1])

\* a colour difference taken position by position: a colour of the outfit
\* is missing unless the palette holds it at the same place
MissingInOrder(s, o) ==
  LET inv == s.inventory
      items_set == LowerSet(o.items)
      off == {i \in DOMAIN o.colors :
                i > Len(s.palette) \/ Lower(o.colors[i]) # s.palette[i]}
  IN  OutfitMatch(o, items_set \ inv,
                  IF s.palette = <<>> THEN {}
                  ELSE {Lower(o.colors[i]) : i \in off})

\* missing_items and missing_colors of one outfit
Missing(s, o) ==
  LET inv == s.inventory
      items_set == LowerSet(o.items)
      colors_set == LowerSet(o.colors)
  IN  OutfitMatch(o, items_set \ inv,
                  IF s.palette = <<>> THEN {}
                  ELSE colors_set \ LowerSet(s.palette))

IsExact(m) == m.missing_items = {} /\ m.missing_colors = {}

\* a classifying loop whose near matches are the outfits that miss items
\* only: an outfit that misses a colour is dropped
RECURSIVE ClassifyItemsOnly(_, _, _, _)
ClassifyItemsOnly(s, todo, exact, near) ==
  IF todo = <<>> THEN [exact |-> exact, near |-> near]
  ELSE LET m == Missing(s, Head(todo))
       IN  IF IsExact(m)
           THEN ClassifyItemsOnly(s, Tail(todo), Append(exact, m), near)
           ELSE IF m.missing_colors = {}
                THEN ClassifyItemsOnly(s, Tail(todo), exact, Append(near, m))
                ELSE ClassifyItemsOnly(s, Tail(todo), exact, near)

\* the classifying loop of _assemble_cosmetic
RECURSIVE Classify(_, _, _, _)
Classify(s, todo, exact, near) ==
  IF todo = <<>> THEN [exact |-> exact, near |-> near]
  ELSE LET m == Missing(s, Head(todo))
       IN  IF IsExact(m)
           THEN Classify(s, Tail(todo), Append(exact, m), near)
           ELSE Classify(s, Tail(todo), exact, Append(near, m))

\* a summary that looks at the near matches first
SummaryNearFirst(exact, near) ==
  IF near # <<>> THEN Msg("Near", Len(near))
  ELSE IF exact # <<>> THEN Msg("Exact", Len(exact))
  ELSE Msg("NoMatches", 0)

\* the three returns that end _assemble_cosmetic
Summary(exact, near) ==
  IF exact # <<>> THEN Msg("Exact", Len(exact))
  ELSE IF near # <<>> THEN Msg("Near", Len(near))
  ELSE Msg("NoMatches", 0)

\* _assemble_cosmetic: the message alone, the session is not assigned
AssembleMsg(s, cat) ==
  IF NoTheme(s.theme) THEN Msg("NoTheme", 0)
  ELSE IF s.inventory = {} THEN Msg("InventoryEmpty", 0)
  ELSE LET theme_outfits == ThemeOutfits(cat, s.theme)
       IN  IF theme_outfits = <<>> THEN Msg("NoOutfits", 0)
           ELSE LET c == Classify(s, theme_outfits, <<>>, <<>>)
                IN  Summary(c.exact, c.near)

\* an _assemble_cosmetic that works on self.inventory itself, not on a copy
\* of it, and takes the items of the outfits of the theme out of it
DoAssembleCosmeticInPlace(s, cat) ==
  LET used == UNION {LowerSet(ThemeOutfits(cat, s.theme)[i].items) :
                       i \in DOMAIN ThemeOutfits(cat, s.theme)}
  IN  [session |-> [s EXCEPT !.inventory = @ \ used], error |-> NoError,
       msg |-> AssembleMsg(s, cat)]

DoAssembleCosmetic(s, cat) ==
  [session |-> s, error |-> NoError, msg |-> AssembleMsg(s, cat)]

\* get_matching_outfits
GetMatchingOutfits(s, cat) ==
  IF NoTheme(s.theme) THEN <<>>
  ELSE LET inv == s.inventory
           fits(o) ==
             /\ Lower(o.theme) = s.theme[1]
             /\ LowerSet(o.items) \ inv = {}
             /\ (s.palette = <<>> \/ LowerSet(o.colors) \ LowerSet(s.palette) = {})
       IN  SelectSeq(cat, fits)

\* execute: the dispatch on ast.command
Execute(s, cat, ast) ==
  LET cmd == ast.command
      args == ast.arguments
  IN  CASE cmd = ApplyTheme -> DoApplyTheme(s, args[1])
        [] cmd = AddItem -> DoAddItem(s, args[1])
        [] cmd = RemoveItem -> DoRemoveItem(s, args[1])
        [] cmd = ClearInventory -> DoClearInventory(s)
        [] cmd = AddItemList -> DoAddItemList(s, args)
        [] cmd = ColorPalette -> DoSetColorPalette(s, args)
        [] cmd = AssembleCosmetic -> DoAssembleCosmetic(s, cat)
        [] OTHER -> Raise(s, ExecutionError)

-----------------------------------------------------------------------------
(* Firebase manager: db is users/<uid>/inventory of the database, by uid; *)
(* a user's uid is modelled by the email the user registered with         *)

\* login_user: the user that auth.get_user_by_email finds, if any
LoginUser(db, email) ==
  IF email \in DOMAIN db THEN [success |-> TRUE, uid |-> email]
  ELSE [success |-> FALSE, uid |-> <<>>]

\* get_user_inventory
GetUserInventory(db, u) == IF u \in DOMAIN db THEN db[u] ELSE <<>>

\* save_user_inventory
SaveUserInventory(db, u, inv) == [db EXCEPT ![u] = inv]

-----------------------------------------------------------------------------
(* Inputs *)

\* the database when the session starts: two registered users and their
\* stored inventories
Database == (<<"a">> :> << <<"J">> >>) @@ (<<"b">> :> << <<"b">> >>)

\* the texts typed into the Email field
Emails == {<<"a">>, <<"b">>, <<"x">>}

\* the longest argument list typed after add item list and color palette
MaxArgs == 2
\* the longest catalog
MaxOutfits == 2

ItemNames == {<<"j">>, <<"J">>, <<"b">>}
ThemeNames == {<<>>, <<"C">>}

\* the sequences of 1 to n elements of pool
ArgLists(pool, n) == UNION {[1..k -> pool] : k \in 1..n}

\* cosmetics_library.json: records as json.load returns them
Library ==
  { [name |-> <<"x">>, theme |-> <<"C">>, items |-> <<<<"J">>, <<"b">>>>,
     colors |-> <<<<"R">>>>],
    [name |-> <<"z">>, theme |-> <<"c">>, colors |-> <<<<"k">>, <<"r">>>>] }

Catalogs == UNION {[1..k -> Library] : k \in 0..MaxOutfits}

\* phrase "arg1" "arg2" ...: a line of the command grammar
RECURSIVE Quoted(_)
Quoted(args) ==
  IF args = <<>> THEN <<>>
  ELSE <<" ", Quote>> \o Head(args) \o <<Quote>> \o Quoted(Tail(args))

Line(phrase, args) == phrase \o Quoted(args)

\* the lines typed into the Command Runner
Lines ==
  {Line(AddItemList, a) : a \in ArgLists({<<"J">>, <<"b">>}, MaxArgs)}
  \cup {Line(AddItemList, <<<<"J">>, <<"j">>>>)}
  \cup {Line(c, <<>>) : c \in {ClearInventory, AssembleCosmetic, Logout, Exit,
                              ApplyTheme}}
  \cup {Line(c, <<<<"j">>>>) : c \in {ApplyTheme, RemoveItem, Login, Register}}
  \cup {Line(ApplyTheme, <<<<>>>>)}
  \cup {Line(c, <<<<"R">>, <<"k">>>>) : c \in {Register, ColorPalette, AddItem}}
  \cup {Line(ColorPalette, <<<<"R">>, <<"r">>>>)}
  \cup { <<>>, <<"f","o","o">>, <<Quote, "j", Quote>>,
         <<" ","A","d","d"," ","I","T","E","M",Quote,"b",Quote," ">>,
         AddItem \o <<" ", Quote, "j">>,
         ColorPalette \o <<Quote, "K", Quote, "x", Quote, "r">> }

\* how many arguments beyond the largest upper bound of the table are tried
Beyond == 1

\* the k arguments of an arity line: "a", "B", "c", "a", ...
ArgsOf(k) == [i \in 1..k |-> <<(<<"a", "B", "c">>)[(i % 3) + 1]>>]

\* command phrase c followed by k quoted arguments
ArityLine(c, k) == Line(c, ArgsOf(k))

\* the arity lines: every command of the vocabulary with 0, 1, ... arguments
ArityTable ==
  [i \in DOMAIN COMMANDS, k \in 0..(MaxListArgs + Beyond) |->
     ArityLine(COMMANDS[i], k)]

ArityLines == {ArityTable[x] : x \in DOMAIN ArityTable}

\* the texts typed into the palette field
Comma == ","
PaletteTexts ==
  { <<>>, <<"R">>, <<" ","k"," ",Comma,"R">>, <<"r",Comma,Comma," ",Comma,"r">> }

\* the longest text typed after the start of a line
MaxTail == 4

\* what is typed after the start of a line: quotes, a letter and blanks
TailChars == {Quote, "A", " "}

Tails == UNION {[1..k -> TailChars] : k \in 0..MaxTail}

\* how a line starts: with a phrase of the vocabulary, in any letter case,
\* with part of a phrase, with something else or with nothing
Starts ==
  {COMMANDS[i] : i \in DOMAIN COMMANDS}
  \cup { <<>>, <<"f","o","o">>, <<"a","d","d"," ","i","t","e">>,
         <<" ","A","D","D"," ","I","T","E","M"," ","L","I","S","T">>,
         <<"A","d","d"," ","I","t","e","m">>,
         <<"a","d","d"," ","i","t","e","m"," "," ","l","i","s","t">> }

\* apply theme "cyberpunk"
CyberLine ==
  ApplyTheme \o <<" ", Quote, "c","y","b","e","r","p","u","n","k", Quote>>

\* the texts given to the tokenizer
TokLines == {s \o t : s \in Starts, t \in Tails} \cup {CyberLine}

\* CosmeticsTokenizer(cmd).tokenize(), of each line
Tokenized == [cmd \in Lines \cup ArityLines |-> Tokenize(cmd)]

\* and of each of the tokenizer's texts
TokTokenized == [cmd \in TokLines |-> Tokenize(cmd)]

-----------------------------------------------------------------------------
(* Streamlit script: one action per button handler *)

TheSession == Session(theme, inventory, palette)

\* the record of a handler's run: the command it ran (for a line of the
\* Command Runner, the line, its tokens and what parse made of them), the
\* exception caught, the message displayed and the outfits listed
Ran(handler, line, tokens, command, arguments, error, msg, shown) ==
  [handler |-> handler, line |-> line, tokens |-> tokens,
   command |-> command, arguments |-> arguments, error |-> error,
   msg |-> msg, shown |-> shown]

NoRun == Ran("none", <<>>, <<>>, <<>>, <<>>, NoError, Msg("none", 0), <<>>)

\* the items that a command adds, or finds already there
Owned(command, arguments) ==
  IF command \in {AddItem, AddItemList} THEN LowerSet(arguments) ELSE {}

\* the executor's fields after a handler that leaves the login alone, the
\* inventory it started from, and the items given to it by who is logged in
Leaves(s, added) ==
  /\ theme' = s.theme
  /\ inventory' = s.inventory
  /\ palette' = s.palette
  /\ invBefore' = inventory
  /\ outfits' = outfits
  /\ UNCHANGED <<firebase_enabled, uid, did_sync>>
  /\ own' = IF uid = None THEN own
            ELSE [own EXCEPT ![uid[1]] = @ \cup added]

\* a handler that calls one method of the executor and displays its message
Calls(handler, command, arguments, out) ==
  /\ Leaves(out.session, Owned(command, arguments))
  /\ store' = store
  /\ res' = Ran(handler, <<>>, <<>>, command, arguments, out.error, out.msg,
                <<>>)

\* lines 435-439: the executor is constructed once, from the library
Init ==
  /\ theme = None
  /\ inventory = {}
  /\ palette = <<>>
  /\ outfits \in {[i \in DOMAIN lib |-> FromDict(lib[i])] : lib \in Catalogs}
  /\ firebase_enabled = FALSE
  /\ uid = None
  /\ did_sync = FALSE
  /\ store = Database
  /\ res = NoRun
  /\ invBefore = {}
  /\ own = [u \in DOMAIN store |-> LowerSet(store[u])]

\* lines 452-454
AddButton ==
  \E add_item \in ItemNames :
    Calls("Add", AddItem, <<add_item>>, DoAddItem(TheSession, add_item))

\* lines 457-459
RemoveButton ==
  \E remove_item \in ItemNames :
    Calls("Remove", RemoveItem, <<remove_item>>,
          DoRemoveItem(TheSession, remove_item))

\* lines 460-461
ClearButton ==
  Calls("Clear", ClearInventory, <<>>, DoClearInventory(TheSession))

\* lines 468-469
ApplyThemeButton ==
  \E t \in ThemeNames :
    Calls("ApplyTheme", ApplyTheme, <<t>>, DoApplyTheme(TheSession, t))

\* str.split(sep)
RECURSIVE Split(_, _)
Split(s, sep) ==
  LET at == Find(s, sep, 0)
  IN  IF at >= Len(s) THEN <<s>>
      ELSE <<SubSeq(s, 1, at)>> \o Split(From(s, at + 1), sep)

\* [c.strip() for c in palette.split(",") if c.strip()]
PaletteColors(text) ==
  LET parts == Split(text, Comma)
      stripped == [i \in DOMAIN parts |-> Strip(parts[i])]
  IN  SelectSeq(stripped, LAMBDA c : c # <<>>)

\* lines 472-474
SetPaletteButton ==
  \E text \in PaletteTexts :
    LET colors == PaletteColors(text)
    IN  Calls("SetPalette", ColorPalette, colors,
              DoSetColorPalette(TheSession, colors))

\* CosmeticsParser(CosmeticsTokenizer(cmd).tokenize()).parse(), of each line
Parsed == [cmd \in Lines \cup ArityLines |-> Parse(Tokenize(cmd))]

\* and of each of the tokenizer's texts
TokParsed == [cmd \in TokLines |-> Parse(Tokenize(cmd))]

\* lines 479-486: tokenize, parse, execute; any exception is caught and
\* shown; tokens and parsed are what tokenize and parse return for cmd
Runs(cmd, tokens, parsed) ==
  IF parsed.error # NoError
  THEN /\ Leaves(TheSession, {})
       /\ store' = store
       /\ res' = Ran("Run", cmd, tokens, <<>>, <<>>, parsed.error,
                     Msg(parsed.why, 0), <<>>)
  ELSE LET out == Execute(TheSession, outfits, parsed.ast)
       IN  /\ Leaves(out.session,
                     Owned(parsed.ast.command, parsed.ast.arguments))
           /\ store' = store
           /\ res' = Ran("Run", cmd, tokens, parsed.ast.command,
                         parsed.ast.arguments, out.error, out.msg, <<>>)

RunLine(cmd) == Runs(cmd, Tokenized[cmd], Parsed[cmd])

RunCommand == \E cmd \in Lines : RunLine(cmd)

\* lines 490-499: the message of _assemble_cosmetic, then the inventory
\* saved under the user logged in, then the outfits of get_matching_outfits
AssembleButton ==
  LET out == DoAssembleCosmetic(TheSession, outfits)
  IN  /\ Leaves(out.session, {})
      /\ store' = IF firebase_enabled /\ uid # None
                  THEN SaveUserInventory(store, uid[1],
                                         SortedList(out.session.inventory))
                  ELSE store
      /\ res' = Ran("Assemble", <<>>, <<>>, AssembleCosmetic, <<>>, out.error, out.msg,
                    GetMatchingOutfits(out.session, outfits))

\* lines 441-445, which every rerun of the script goes through: the
\* inventory and did_sync they leave, given who is logged in
Sync(enabled, u, synced, inv) ==
  IF enabled /\ u # None /\ ~synced
  THEN [inventory |-> LowerSet(GetUserInventory(store, u[1])), did_sync |-> TRUE]
  ELSE [inventory |-> inv, did_sync |-> synced]

\* a handler of the sidebar: who is logged in after it, and the rerun of
\* the script that follows
Reruns(handler, command, arguments, kind, enabled, u) ==
  LET after == Sync(enabled, u, did_sync, inventory)
  IN  /\ firebase_enabled' = enabled
      /\ uid' = u
      /\ inventory' = after.inventory
      /\ did_sync' = after.did_sync
      /\ invBefore' = inventory
      /\ res' = Ran(handler, <<>>, <<>>, command, arguments, NoError,
                    Msg(kind, 0), <<>>)
      /\ UNCHANGED <<theme, palette, outfits, store, own>>

\* line 363: the checkbox "Enable Firebase (inventory sync)"
ToggleFirebase ==
  Reruns("Toggle", <<>>, <<>>, "none", ~firebase_enabled, uid)

\* lines 391-402: shown when Firebase is enabled and nobody is logged in
LoginButton ==
  /\ firebase_enabled
  /\ uid = None
  /\ \E email \in Emails :
       LET r == LoginUser(store, email)
       IN  IF r.success
           THEN Reruns("Login", Login, <<email>>, "LoggedIn", firebase_enabled,
                       Some(r.uid))
           ELSE Reruns("Login", Login, <<email>>, "LoginFailed",
                       firebase_enabled, uid)

\* lines 420-425: shown when Firebase is enabled and somebody is logged in;
\* pops uid and email, and nothing else
LogoutButton ==
  /\ firebase_enabled
  /\ uid # None
  /\ Reruns("Logout", Logout, <<>>, "none", firebase_enabled, None)

Next ==
  \/ AddButton
  \/ RemoveButton
  \/ ClearButton
  \/ ApplyThemeButton
  \/ SetPaletteButton
  \/ RunCommand
  \/ AssembleButton

Spec == Init /\ [][Next]_vars

\* the first line run in a fresh session, drawn from the arity lines
FirstRun == res = NoRun /\ \E cmd \in ArityLines : RunLine(cmd)

\* a fresh executor over the empty library
InitParse == Init /\ outfits = <<>>

SpecParse == InitParse /\ [][FirstRun]_vars

\* the first line run in a fresh session, drawn from the tokenizer's texts
FirstTok ==
  res = NoRun /\ \E cmd \in TokLines : Runs(cmd, TokTokenized[cmd], TokParsed[cmd])

SpecTok == InitParse /\ [][FirstTok]_vars

\* the sidebar, the inventory editor and Assemble
NextLogin ==
  \/ ToggleFirebase
  \/ LoginButton
  \/ LogoutButton
  \/ AddButton
  \/ RemoveButton
  \/ ClearButton
  \/ AssembleButton

SpecLogin == InitParse /\ [][NextLogin]_vars

-----------------------------------------------------------------------------
(* Claims *)

\* C1: for every command c of the table with bound (min, max) and every
\* number k of quoted arguments after the phrase, the line parses if and only
\* if min <= k <= max, to the record of c and the k literals in order, and
\* otherwise parse raises ParseError for the argument count.
C1_ArityDecidesParse ==
  \A i \in DOMAIN COMMANDS, k \in 0..(MaxListArgs + Beyond) :
    (res.handler = "Run" /\ res.line = ArityTable[i, k]) =>
      LET c == COMMANDS[i]
          min == COMMAND_RULES(c)[1]
          max == COMMAND_RULES(c)[2]
      IN  IF min <= k /\ k <= max
          THEN /\ res.error # ParseError
               /\ res.command = c
               /\ res.arguments = ArgsOf(k)
          ELSE /\ res.error = ParseError
               /\ res.msg = Msg("Arity", 0)

\* C1 witness: add item list with one argument more than its bound was run
\* and refused, as register with one argument is
C1_Witness ==
  /\ res.handler = "Run"
  /\ res.line = ArityTable[5, MaxListArgs + 1]
  /\ COMMANDS[5] = AddItemList
  /\ res.error = ParseError
  /\ Parsed[ArityLine(Register, 1)].error = ParseError
  /\ Parsed[ArityLine(AddItemList, MaxListArgs)].error = NoError


IsLowerCase(x) == \A i \in DOMAIN x : \A u \in DOMAIN UpperCase : x[i] # UpperCase[u]

NoRepeat(xs) == \A i, j \in DOMAIN xs : i # j => xs[i] # xs[j]

\* C2 as claimed: every inventory entry and every palette entry is
\* lower-case, and no entry occurs twice in the inventory or in the palette.
C2_LowerCaseAndUnique ==
  /\ \A x \in inventory : IsLowerCase(x)
  /\ \A i \in DOMAIN palette : IsLowerCase(palette[i])
  /\ Cardinality(inventory) = Cardinality({Lower(x) : x \in inventory})
  /\ NoRepeat(palette)

\* C2 amended: every inventory entry and every palette entry is lower-case
\* and no two inventory entries are equal, even up to letter case; the
\* palette keeps the colours as given, repeated ones included.
C2_LowerCaseInventoryUnique ==
  /\ \A x \in inventory : IsLowerCase(x)
  /\ \A i \in DOMAIN palette : IsLowerCase(palette[i])
  /\ Cardinality(inventory) = Cardinality({Lower(x) : x \in inventory})

\* C2 witness: items typed in upper and lower case are in the inventory and
\* the palette holds the colour "r" twice
C2_Witness ==
  /\ inventory = {<<"j">>, <<"b">>}
  /\ palette = << <<"r">>, <<"r">> >>

SessionAfter == Session(theme', inventory', palette')

\* the soft failures: a duplicate add, a missing removal target and
\* assemble cosmetic, whatever it returns
SoftKinds ==
  {"AlreadyInInventory", "NotInInventory", "NoTheme", "InventoryEmpty",
   "NoOutfits", "Exact", "Near", "NoMatches"}

\* C3: every handler run that ends in a soft failure (add item of an item
\* already present, remove item of an absent item, assemble cosmetic in
\* each of its outcomes) leaves theme, inventory and palette as they were,
\* returns its message and raises nothing.
C3_SoftFailuresKeepSession ==
  [][ (res'.msg.kind \in SoftKinds \/ res'.command = AssembleCosmetic) =>
        /\ SessionAfter = TheSession
        /\ res'.error = NoError
        /\ res'.msg.kind \in SoftKinds ]_vars

\* C3 witness: a removal found its target absent from a non-empty inventory
\* of a session that has a theme and a palette
C3_Witness ==
  /\ res.msg.kind = "NotInInventory"
  /\ inventory # {}
  /\ theme # None
  /\ palette # <<>>

\* C4: a handler run that ends in ParseError or ExecutionError leaves theme,
\* inventory and palette as they were.
C4_HardFailuresKeepSession ==
  [][ res'.error \in {ParseError, ExecutionError} => SessionAfter = TheSession ]_vars

\* C4 witness: a line was refused for its argument count in a session that
\* has a theme, an inventory and a palette
C4_Witness ==
  /\ res.error = ParseError
  /\ res.msg.kind = "Arity"
  /\ inventory # {}
  /\ theme # None
  /\ palette # <<>>

\* C5 as claimed: execute returns a message and raises no ExecutionError for
\* every command record that parse returns.
C5_ParsedNeverRaises ==
  (res.handler = "Run" /\ res.error # ParseError) => res.error = NoError

\* the outfits of the session theme, by their place in the catalog
OfTheme == {i \in DOMAIN outfits : theme # None /\ Lower(outfits[i].theme) = theme[1]}

\* those of them with no missing item and no missing colour: every item is
\* in the inventory and, when a palette is set, every colour is in it
Complete ==
  {i \in OfTheme :
     /\ \A n \in DOMAIN outfits[i].items : Lower(outfits[i].items[n]) \in inventory
     /\ \/ palette = <<>>
        \/ \A n \in DOMAIN outfits[i].colors :
             \E p \in DOMAIN palette : palette[p] = Lower(outfits[i].colors[n])}

Assembled == res.command = AssembleCosmetic /\ res.error = NoError

PreconditionKinds == {"NoTheme", "InventoryEmpty", "NoOutfits"}

\* C6: when assemble cosmetic passes its preconditions and some outfit of the
\* theme has nothing missing, the message is the count of these outfits, near
\* matches or not; a near-match count is reported only when there is none,
\* and it is the count of the outfits of the theme with something missing.
C6_ExactBeforeNear ==
  (Assembled /\ res.msg.kind \notin PreconditionKinds) =>
    /\ Complete # {} => res.msg = Msg("Exact", Cardinality(Complete))
    /\ Complete = {} => res.msg = Msg("Near", Cardinality(OfTheme \ Complete))
    /\ res.msg.kind = "Near" => Complete = {}

\* C6 witness: one exact match was reported while another outfit of the
\* theme has something missing
C6_Witness ==
  /\ Assembled
  /\ res.msg = Msg("Exact", 1)
  /\ OfTheme \ Complete # {}

\* C7 as claimed: assemble cosmetic returns 'no theme set' when the theme is
\* unset, otherwise 'inventory empty' when the inventory is empty, otherwise
\* 'no outfits for theme' when no outfit has the theme, and matches only
\* when all three pass.
C7_PreconditionOrder ==
  Assembled =>
    IF theme = None THEN res.msg.kind = "NoTheme"
    ELSE IF inventory = {} THEN res.msg.kind = "InventoryEmpty"
    ELSE IF OfTheme = {} THEN res.msg.kind = "NoOutfits"
    ELSE res.msg.kind \notin PreconditionKinds

\* C8 as claimed: the outfits get_matching_outfits returns are, in catalog
\* order, those assemble cosmetic counts as exact: as many as the exact-match
\* count, and none when the message is anything else.
C8_ShownAreTheExact ==
  res.handler = "Assemble" =>
    IF res.msg.kind = "Exact"
    THEN /\ Len(res.shown) = res.msg.n
         /\ res.shown = SelectSeq(outfits, LAMBDA o :
                          \E i \in Complete : outfits[i] = o)
    ELSE res.shown = <<>>

Adds(r) == r.command = AddItem /\ r.error = NoError
Removes(r) == r.command = RemoveItem /\ r.error = NoError

\* C9: add item(j) run right after add item(i), j equal to i up to letter
\* case, leaves the inventory as add item(i) left it (of size 1 if add
\* item(i) started from the empty inventory) and returns the 'already in
\* inventory' warning.
C9_AddIsIdempotent ==
  [][ (Adds(res) /\ Adds(res')
       /\ Lower(res.arguments[1]) = Lower(res'.arguments[1])) =>
        /\ inventory' = inventory
        /\ res'.msg.kind = "AlreadyInInventory"
        /\ invBefore = {} => Cardinality(inventory') = 1 ]_vars

\* C9 witness: "j" was added to an inventory that held it as the only item
\* and the warning was returned
C9_Witness ==
  /\ Adds(res)
  /\ res.arguments = << <<"j">> >>
  /\ res.msg.kind = "AlreadyInInventory"
  /\ inventory = {<<"j">>}
  /\ invBefore = inventory

\* C10: remove item(j) run right after add item(i), j equal to i up to letter
\* case, where the inventory did not hold lower(i) before the add, restores
\* the inventory to what it was before the add and returns a confirmation.
C10_RemoveUndoesAdd ==
  [][ (Adds(res) /\ Lower(res.arguments[1]) \notin invBefore
       /\ Removes(res')
       /\ Lower(res.arguments[1]) = Lower(res'.arguments[1])) =>
        /\ inventory' = invBefore
        /\ res'.msg.kind = "Removed" ]_vars

\* C10 witness: "J" was removed from the inventory that held "j" alone, and
\* the removal was confirmed
C10_Witness ==
  /\ Removes(res)
  /\ res.arguments = << <<"J">> >>
  /\ res.msg.kind = "Removed"
  /\ invBefore = {<<"j">>}
  /\ inventory = {}

\* the argument lists of a color palette command
ColourLists == ArgLists({<<"R">>, <<"r">>, <<"k">>}, MaxArgs)

\* the session after color palette(a)
PaletteOf(a) == DoSetColorPalette(TheSession, a).session

SameColours(a, b) == LowerSet(a) = LowerSet(b)

Reversed(xs) == [i \in DOMAIN xs |-> xs[Len(xs) + 1 - i]]

\* the catalog with the colours of every outfit in the opposite order
Recoloured == [i \in DOMAIN outfits |-> [outfits[i] EXCEPT !.colors = Reversed(@)]]

NamesOf(os) == [i \in DOMAIN os |-> os[i].name]

\* C11: colour matching is set-based: a color palette command whose
\* arguments are the colours of the palette in force, up to letter case, in
\* any order and with any repetition, leaves assemble cosmetic with the same
\* message and get_matching_outfits with the same list, whatever the order of
\* the colours of the outfits; and an outfit whose colours are those of the
\* palette has an empty colour difference.
C11_ColoursMatchAsSets ==
  palette # <<>> =>
    /\ \A a \in ColourLists :
         SameColours(a, palette) =>
           /\ AssembleMsg(PaletteOf(a), outfits) = AssembleMsg(TheSession, outfits)
           /\ GetMatchingOutfits(PaletteOf(a), outfits)
                = GetMatchingOutfits(TheSession, outfits)
           /\ AssembleMsg(PaletteOf(a), Recoloured)
                = AssembleMsg(TheSession, outfits)
           /\ NamesOf(GetMatchingOutfits(PaletteOf(a), Recoloured))
                = NamesOf(GetMatchingOutfits(TheSession, outfits))
    /\ \A i \in DOMAIN outfits :
         SameColours(outfits[i].colors, palette) =>
           Missing(TheSession, outfits[i]).missing_colors = {}

\* C11 witness: color palette "R" "k" was run, an outfit of the theme lists
\* the colours as "k", "r", and assemble cosmetic finds an exact match
C11_Witness ==
  /\ res.command = ColorPalette
  /\ res.arguments = << <<"R">>, <<"k">> >>
  /\ palette = << <<"r">>, <<"k">> >>
  /\ theme = Some(<<"c">>)
  /\ inventory # {}
  /\ \E i \in DOMAIN outfits : outfits[i].colors = << <<"k">>, <<"r">> >>
  /\ AssembleMsg(TheSession, outfits).kind = "Exact"

\* the phrases of the vocabulary that the trimmed line starts with, whatever
\* the letter case
PrefixesOf(line) ==
  LET text == Lower(Strip(line))
  IN  {i \in DOMAIN COMMANDS : StartsWith(text, COMMANDS[i])}

CommandTokens(tokens) == {i \in DOMAIN tokens : tokens[i].type = COMMAND}

\* C12: the Command token is the longest phrase of the vocabulary that is a
\* prefix of the trimmed line, whatever the letter case; a line that begins
\* with "add item list" never gives the command "add item"; and when no
\* phrase is a prefix there is no Command token.
C12_LongestPhrase ==
  res.handler = "Run" =>
    LET hits == PrefixesOf(res.line)
    IN  IF hits = {} THEN CommandTokens(res.tokens) = {}
        ELSE /\ CommandTokens(res.tokens) = {1}
             /\ \E i \in hits :
                  /\ res.tokens[1].value = COMMANDS[i]
                  /\ \A j \in hits : Len(COMMANDS[j]) <= Len(COMMANDS[i])
             /\ (\E i \in hits : COMMANDS[i] = AddItemList)
                  => res.tokens[1].value # AddItem

\* C12 witness: a line that starts with " ADD ITEM LIST" and goes on with a
\* quoted literal gave the command "add item list"
C12_Witness ==
  /\ res.handler = "Run"
  /\ Len(res.line) > 4
  /\ SubSeq(res.line, 1, 4) = <<" ", "A", "D", "D">>
  /\ {i \in PrefixesOf(res.line) : COMMANDS[i] \in {AddItem, AddItemList}}
       = {i \in DOMAIN COMMANDS : COMMANDS[i] \in {AddItem, AddItemList}}
  /\ res.tokens[1].value = AddItemList
  /\ Len(res.tokens) = 3

\* C13: tokenize returns, for every text, a sequence with exactly one End
\* token, which is its last element, at most one Command token, which is
\* its first element, and StringLiteral tokens only between the two and only
\* when there is a Command token.
C13_TokenShape ==
  res.handler = "Run" =>
    LET t == res.tokens
        n == Len(t)
    IN  /\ n >= 1
        /\ t[n].type = EOF
        /\ \A i \in 1..n :
             /\ t[i].type \in {COMMAND, STRING_LITERAL, EOF}
             /\ t[i].type = EOF => i = n
             /\ t[i].type = COMMAND => i = 1
             /\ t[i].type = STRING_LITERAL => t[1].type = COMMAND /\ 1 < i /\ i < n

\* C13 witness: the line "A" in quotes, with no command, gave the End token
\* alone
C13_Witness ==
  /\ res.handler = "Run"
  /\ res.line = <<Quote, "A", Quote>>
  /\ res.tokens = <<Token(EOF, <<>>, 0)>>
  /\ res.error = ParseError

\* the contents of the complete double-quoted segments of text, from left
\* to right: inside is whether a quote is open, cur what was read since
RECURSIVE Segments(_, _, _)
Segments(text, inside, cur) ==
  IF text = <<>> THEN <<>>
  ELSE IF Head(text) = Quote
       THEN IF inside THEN <<cur>> \o Segments(Tail(text), FALSE, <<>>)
            ELSE Segments(Tail(text), TRUE, <<>>)
       ELSE Segments(Tail(text), inside,
                     IF inside THEN Append(cur, Head(text)) ELSE cur)

\* the values of the StringLiteral tokens, in order
LiteralValues(tokens) ==
  LET lits == SelectSeq(tokens, LAMBDA t : t.type = STRING_LITERAL)
  IN  [i \in DOMAIN lits |-> lits[i].value]

\* C14: after a matched command phrase the StringLiteral tokens are the
\* contents, letter case kept, of the complete double-quoted segments of the
\* rest of the line, from left to right: a quote that nothing closes gives
\* no literal and ends the extraction; and apply theme "cyberpunk" parses
\* to the command "apply theme" with the argument "cyberpunk".
C14_LiteralsAreQuotedSegments ==
  (res.handler = "Run" /\ res.tokens[1].type = COMMAND) =>
    LET rest == From(Strip(res.line), Len(res.tokens[1].value))
    IN  /\ LiteralValues(res.tokens) = Segments(rest, FALSE, <<>>)
        /\ res.line = CyberLine =>
             /\ res.error = NoError
             /\ res.command = ApplyTheme
             /\ res.arguments = << <<"c","y","b","e","r","p","u","n","k">> >>

\* C14 witness: add item"A"" was run: the literal "A" is kept in upper case
\* and the quote after it, which nothing closes, gives none
C14_Witness ==
  /\ res.handler = "Run"
  /\ res.line = AddItem \o <<Quote, "A", Quote, Quote>>
  /\ LiteralValues(res.tokens) = << <<"A">> >>
  /\ res.error = NoError
  /\ inventory = {<<"a">>}

\* C15: add item list(i1..in) leaves the inventory it found united with
\* lower(i1), ..., lower(in); the count of its message is the increase of the
\* inventory's size, so that items already held and items repeated in the
\* call are not counted; theme and palette are as before.
C15_AddItemListIsUnion ==
  [][ (res'.command = AddItemList /\ res'.error = NoError) =>
        /\ inventory' = inventory \cup LowerSet(res'.arguments)
        /\ res'.msg = Msg("AddedN", Cardinality(inventory') - Cardinality(inventory))
        /\ theme' = theme
        /\ palette' = palette ]_vars

\* C15 witness: add item list "J" "j" was run on the inventory {"b"}, with a
\* theme and a palette set: one item was added and counted
C15_Witness ==
  /\ res.command = AddItemList
  /\ res.arguments = << <<"J">>, <<"j">> >>
  /\ invBefore = {<<"b">>}
  /\ inventory = {<<"b">>, <<"j">>}
  /\ res.msg = Msg("AddedN", 1)
  /\ theme # None
  /\ palette # <<>>

\* C16: color palette(c1..cn) leaves the palette equal to the sequence
\* lower(c1), ..., lower(cn), whatever the palette was, and theme and
\* inventory as they were.
C16_PaletteIsReplaced ==
  [][ (res'.command = ColorPalette /\ res'.error = NoError) =>
        /\ palette' = [i \in DOMAIN res'.arguments |-> Lower(res'.arguments[i])]
        /\ theme' = theme
        /\ inventory' = inventory ]_vars

\* C16 witness: color palette "R" "k" was run in a session with a theme and
\* an inventory, and the palette is "r", "k"
C16_Witness ==
  /\ res.handler = "Run"
  /\ res.command = ColorPalette
  /\ res.arguments = << <<"R">>, <<"k">> >>
  /\ palette = << <<"r">>, <<"k">> >>
  /\ theme # None
  /\ inventory # {}

\* C17 as claimed: once apply theme has been executed, with whatever argument
\* the parser accepts, the assemble cosmetic that follows it does not return
\* the 'no theme set' message.
C17_ThemeAppliedIsSet ==
  [][ (res.command = ApplyTheme /\ res.error = NoError /\ Assembled') =>
        res'.msg.kind # "NoTheme" ]_vars

\* the outfits of the theme, as the classifying loop sorts them
Sorted == Classify(TheSession, ThemeOutfits(outfits, theme), <<>>, <<>>)

\* C19: the 'no matches found' message is never returned: when the three
\* preconditions of assemble cosmetic pass, every outfit of the theme is
\* either an exact or a near match, the two counts add up to the number of
\* the outfits of the theme, which is not zero, and the message is a count
\* of exact matches or of near matches that is at least 1.
C19_NoMatchesUnreachable ==
  Assembled =>
    /\ res.msg.kind # "NoMatches"
    /\ res.msg.kind \notin PreconditionKinds =>
         /\ OfTheme # {}
         /\ Len(Sorted.exact) + Len(Sorted.near) = Cardinality(OfTheme)
         /\ \A i \in OfTheme :
              \/ /\ \E n \in DOMAIN Sorted.exact : Sorted.exact[n].outfit = outfits[i]
                 /\ \A n \in DOMAIN Sorted.near : Sorted.near[n].outfit # outfits[i]
              \/ /\ \E n \in DOMAIN Sorted.near : Sorted.near[n].outfit = outfits[i]
                 /\ \A n \in DOMAIN Sorted.exact : Sorted.exact[n].outfit # outfits[i]
         /\ res.msg.kind \in {"Exact", "Near"}
         /\ res.msg.n >= 1
         /\ res.msg.n = IF Sorted.exact # <<>> THEN Len(Sorted.exact)
                        ELSE Len(Sorted.near)

\* C19 witness: assemble cosmetic was run with an inventory and a palette
\* that leave the outfit of the theme short of an item and of a colour: it
\* is a near match
C19_Witness ==
  /\ Assembled
  /\ res.msg = Msg("Near", 1)
  /\ \E i \in OfTheme :
       LET m == Missing(TheSession, outfits[i])
       IN  m.missing_items # {} /\ m.missing_colors # {}

\* C18 as claimed: after every successful login with Firebase enabled, a
\* login that follows a logout included, the inventory of the executor is
\* the stored inventory of the user who logged in, lower-cased.
C18_SyncedAtEveryLogin ==
  (res.handler = "Login" /\ res.msg.kind = "LoggedIn") =>
    /\ uid = Some(res.arguments[1])
    /\ inventory = LowerSet(GetUserInventory(store, uid[1]))

\* C20 as claimed: what Assemble has saved under a user holds only items of
\* that user's stored inventory and items of the add commands run while
\* that user was logged in.
C20_SavedItemsAreTheUsers ==
  \A u \in DOMAIN store : LowerSet(store[u]) \subseteq own[u]

=============================================================================
